---- MODULE Spec2Model ----
(***************************************************************************)
(* EMA parameter tracking of python-efficientnet-jax.                      *)
(*                                                                         *)
(*   jeffnet/linen/ema_state.py : EmaState (decay, variables),             *)
(*                                EmaState.create, EmaState.update         *)
(*   tf_linen_train.py          : TrainState, create_train_state,          *)
(*                                train_step, sync_batch_stats,            *)
(*                                eval_step, eval_step_ema                 *)
(*                                                                         *)
(* Tensors are objects: a parameter mapping (pytree) maps a key to the     *)
(* address of a tensor, and heap maps an address to the tensor's value.    *)
(* A tensor value is a sequence of numbers (rank 1, shape = its length).   *)
(* Numbers are exact non-negative rationals <<numerator, denominator>> in  *)
(* lowest terms; floating-point rounding is not modelled.                  *)
(***************************************************************************)
EXTENDS Integers, Sequences, FiniteSets, TLC

VARIABLES
    heap,         \* Seq of tensor values; an address is an index into it
    live,         \* [isNone, leaves]: the caller's live parameter pytree
    ema,          \* the EmaState the caller holds (an EmaState record)
    pc,           \* "start" | "ready" | "raised"
    last,         \* the last operation: "none" | "create" | "update" | ...
    result,       \* its outcome: "ok" | "ValueError" | "TypeError"
    decay0,       \* history: the decay given to create
    P0,           \* history: the values of the mapping given to create
    hist,         \* history: the values of the mapping of every update call
    prev,         \* history: the EmaState the last update call was made on
    prevSnap,     \* history: prev's shadow values before that call
    step,         \* TrainState.step
    model_state,  \* TrainState.model_state (an opaque token)
    dynamic_scale, \* TrainState.dynamic_scale: "None" | "DynamicScale"
    eval_variables \* the 'params' pytree the last evaluation step ran with

vars == <<heap, live, ema, pc, last, result, decay0, P0, hist, prev, prevSnap,
          step, model_state, dynamic_scale, eval_variables>>

-----------------------------------------------------------------------------
(* Bounds *)

MaxUpdates == 3

MaxSteps == 2

-----------------------------------------------------------------------------
(* Exact rational arithmetic on <<n, d>>, n >= 0, d > 0 *)

RECURSIVE GCD(_, _)
GCD(a, b) == IF b = 0 THEN a ELSE GCD(b, a % b)

Norm(x) ==
    LET g == GCD(x[1], x[2])
    IN  IF x[1] = 0 THEN <<0, 1>> ELSE <<x[1] \div g, x[2] \div g>>

Rat(n) == <<n, 1>>

Zero == Rat(0)

One == Rat(1)

RMul(x, y) == Norm(<<x[1] * y[1], x[2] * y[2]>>)

RAdd(x, y) == Norm(<<x[1] * y[2] + y[1] * x[2], x[2] * y[2]>>)

\* x - y for x >= y
RSub(x, y) == Norm(<<x[1] * y[2] - y[1] * x[2], x[2] * y[2]>>)

-----------------------------------------------------------------------------
(* Input domains *)

Keys == {"b", "w"}

\* pytree flattening visits dictionary keys in sorted order
KeyOrder == <<"b", "w">>

Decays == {Zero, <<1, 2>>, <<9, 10>>}

TensorsOf(k) ==
    IF k = "w"
    THEN {<<Rat(0)>>, <<Rat(2)>>, <<Rat(10)>>, <<Rat(12)>>}
    ELSE {<<Rat(12)>>, <<Rat(2), Rat(10)>>}

\* the key sets of the parameter mappings tried
KeySets == {{"w"}, {"b", "w"}}

\* value mappings: a key set, each key with one of its tensors
ParamMaps ==
    UNION { {m \in [D -> UNION {TensorsOf(k) : k \in D}] :
                \A k \in D : m[k] \in TensorsOf(k)} :
            D \in KeySets }

ModelStates == {"batch_stats0", "batch_stats1"}

-----------------------------------------------------------------------------
(* Pytrees and the heap *)

\* Python None for a pytree-valued field
NoneTree == [isNone |-> TRUE, leaves |-> <<>>]

Tree(m) == [isNone |-> FALSE, leaves |-> m]

SortedKeys(D) == SelectSeq(KeyOrder, LAMBDA k : k \in D)

IndexOf(s, k) == CHOOSE i \in 1..Len(s) : s[i] = k

\* fresh tensors holding the values vals, one per key, in key order
AllocTree(h, vals) ==
    LET ks == SortedKeys(DOMAIN vals)
    IN  [heap |-> h \o [i \in 1..Len(ks) |-> vals[ks[i]]],
         tree |-> Tree([k \in DOMAIN vals |-> Len(h) + IndexOf(ks, k)])]

\* the values a pytree holds
Deref(h, t) == [k \in DOMAIN t.leaves |-> h[t.leaves[k]]]

Shapes(vals) == [k \in DOMAIN vals |-> Len(vals[k])]

-----------------------------------------------------------------------------
(* EmaState (jeffnet/linen/ema_state.py) *)

\* EmaState(): the dataclass defaults, decay 0. and variables None
EmaState_default == [isNone |-> FALSE, decay |-> Zero, variables |-> NoneTree]

EmaState(decay, variables) ==
    [isNone |-> FALSE, decay |-> decay, variables |-> variables]

\* Python None where an EmaState is expected
EmaNone == [isNone |-> TRUE, decay |-> Zero, variables |-> NoneTree]

Ok(h, v) == [exc |-> "none", heap |-> h, val |-> v]

Raise(h, e) == [exc |-> e, heap |-> h, val |-> EmaNone]

\* a deep copy: a fresh tensor per leaf
tree_map_deepcopy(h, variables) ==
    IF variables.isNone THEN [heap |-> h, tree |-> NoneTree]
    ELSE AllocTree(h, Deref(h, variables))

\* zeros in the shape of every leaf
tree_map_zeros(h, variables) ==
    IF variables.isNone THEN [heap |-> h, tree |-> NoneTree]
    ELSE AllocTree(h, [k \in DOMAIN variables.leaves |->
                         [i \in 1..Len(h[variables.leaves[k]]) |-> Zero]])

\* jax.tree_map(lambda x: x, variables): a new container whose leaves are
\* the objects the function returns, here the leaves of variables themselves
tree_map(h, variables) ==
    IF variables.isNone THEN [heap |-> h, tree |-> NoneTree]
    ELSE [heap |-> h,
          tree |-> Tree([k \in DOMAIN variables.leaves |-> variables.leaves[k]])]

\* create without the disabled branch
create_always(h, decay, variables) ==
    LET r == tree_map(h, variables)
    IN  Ok(r.heap, EmaState(decay, r.tree))

create(h, decay, variables) ==
    IF decay = Zero
    THEN Ok(h, EmaState_default)
    ELSE LET ema_variables == tree_map(h, variables)
         IN  Ok(ema_variables.heap, EmaState(decay, ema_variables.tree))

\* numpy broadcasting of two rank-1 shapes
Broadcastable(a, b) == Len(a) = Len(b) \/ Len(a) = 1 \/ Len(b) = 1

At(t, i) == IF Len(t) = 1 THEN t[1] ELSE t[i]

BroadcastLen(a, b) == IF Len(a) >= Len(b) THEN Len(a) ELSE Len(b)

\* the weights exchanged
ema_leaf_swapped(decay, e, p) ==
    [i \in 1..BroadcastLen(e, p) |->
        RAdd(RMul(At(e, i), RSub(One, decay)), RMul(decay, At(p, i)))]

\* only the first element kept
ema_leaf_first(decay, e, p) ==
    <<RAdd(RMul(e[1], decay), RMul(RSub(One, decay), p[1]))>>

\* lambda ema, p: ema * self.decay + (1. - self.decay) * p
ema_leaf(decay, e, p) ==
    [i \in 1..BroadcastLen(e, p) |->
        RAdd(RMul(At(e, i), decay), RMul(RSub(One, decay), At(p, i)))]

StructureMatches(tree, rest) ==
    /\ tree.isNone = rest.isNone
    /\ DOMAIN tree.leaves = DOMAIN rest.leaves

\* keys missing from rest are skipped, their leaves kept
tree_multimap_lenient(h, decay, tree, rest) ==
    LET common == (DOMAIN tree.leaves) \cap (DOMAIN rest.leaves)
        a == AllocTree(h, [k \in DOMAIN tree.leaves |->
                 IF k \in common /\ Broadcastable(h[tree.leaves[k]], h[rest.leaves[k]])
                 THEN ema_leaf(decay, h[tree.leaves[k]], h[rest.leaves[k]])
                 ELSE h[tree.leaves[k]]])
    IN  [exc |-> "none", heap |-> a.heap, tree |-> a.tree]

\* the result written into the tensors of tree
tree_multimap_inplace(h, decay, tree, rest) ==
    IF ~StructureMatches(tree, rest)
    THEN [exc |-> "ValueError", heap |-> h, tree |-> NoneTree]
    ELSE IF \E k \in DOMAIN tree.leaves :
                ~Broadcastable(h[tree.leaves[k]], h[rest.leaves[k]])
    THEN [exc |-> "TypeError", heap |-> h, tree |-> NoneTree]
    ELSE [exc |-> "none",
          heap |-> [a \in 1..Len(h) |->
                      IF \E k \in DOMAIN tree.leaves : tree.leaves[k] = a
                      THEN LET k == CHOOSE j \in DOMAIN tree.leaves : tree.leaves[j] = a
                           IN  ema_leaf(decay, h[a], h[rest.leaves[k]])
                      ELSE h[a]],
          tree |-> tree]

\* jax.tree_multimap(f, self.variables, new_variables): new_variables is
\* flattened up to the structure of self.variables (ValueError when the
\* dictionary keys differ), f is applied leaf by leaf (TypeError when two
\* shapes do not broadcast) and the results, fresh tensors, are put in a new
\* tree of that structure
tree_multimap(h, decay, tree, rest) ==
    IF ~StructureMatches(tree, rest)
    THEN [exc |-> "ValueError", heap |-> h, tree |-> NoneTree]
    ELSE IF \E k \in DOMAIN tree.leaves :
                ~Broadcastable(h[tree.leaves[k]], h[rest.leaves[k]])
    THEN [exc |-> "TypeError", heap |-> h, tree |-> NoneTree]
    ELSE LET a == AllocTree(h, [k \in DOMAIN tree.leaves |->
                      ema_leaf(decay, h[tree.leaves[k]], h[rest.leaves[k]])])
         IN  [exc |-> "none", heap |-> a.heap, tree |-> a.tree]

\* a new EmaState built from the defaults and the new variables
replace_default(self, variables) == EmaState(Zero, variables)

\* the state returned as it was
replace_keep(self, variables) == self

\* self.replace(variables=...): dataclasses.replace, a new record
replace(self, variables) == [self EXCEPT !.variables = variables]

update(h, self, new_variables) ==
    IF self.decay = Zero
    THEN Ok(h, replace(self, NoneTree))
    ELSE LET new_ema_variables ==
                 tree_multimap(h, self.decay, self.variables, new_variables)
         IN  IF new_ema_variables.exc # "none"
             THEN Raise(h, new_ema_variables.exc)
             ELSE Ok(new_ema_variables.heap, replace(self, new_ema_variables.tree))

\* Python binds positional arguments to the parameters of the callee:
\* create(decay, variables) takes two, update(self, new_variables) one
\* besides self; any other number raises TypeError before the body runs
Call_create(h, args) ==
    IF Len(args) # 2 THEN Raise(h, "TypeError")
    ELSE create(h, args[1], args[2])

Call_update(h, self, args) ==
    IF Len(args) # 1 THEN Raise(h, "TypeError")
    ELSE update(h, self, args[1])

-----------------------------------------------------------------------------
(* The EmaState lineage driven through its two operations *)

Init ==
    /\ heap = <<>>
    /\ live = NoneTree
    /\ ema = EmaNone
    /\ pc = "start"
    /\ last = "none"
    /\ result = "ok"
    /\ decay0 = Zero
    /\ P0 = <<>>
    /\ hist = <<>>
    /\ prev = EmaNone
    /\ prevSnap = <<>>
    /\ step = 0
    /\ model_state = "batch_stats0"
    /\ dynamic_scale = "None"
    /\ eval_variables = NoneTree

\* ema = EmaState.create(decay, P), P the caller's initial live parameters
Create ==
    /\ pc = "start"
    /\ \E decay \in Decays, P \in ParamMaps :
         LET a == AllocTree(heap, P)
             r == Call_create(a.heap, <<decay, a.tree>>)
         IN  /\ heap' = r.heap
             /\ live' = a.tree
             /\ ema' = r.val
             /\ pc' = IF r.exc = "none" THEN "ready" ELSE "raised"
             /\ result' = IF r.exc = "none" THEN "ok" ELSE r.exc
             /\ decay0' = decay
             /\ P0' = P
    /\ last' = "create"
    /\ UNCHANGED <<hist, prev, prevSnap, step, model_state, dynamic_scale, eval_variables>>

\* ema = ema.update(L), L the live parameters after an optimizer step; an
\* exception is not caught: it ends the run, the state held being the old one
Update ==
    /\ pc = "ready"
    /\ ~ema.isNone
    /\ Len(hist) < MaxUpdates
    /\ \E L \in ParamMaps :
         LET a == AllocTree(heap, L)
             r == Call_update(a.heap, ema, <<a.tree>>)
         IN  /\ heap' = r.heap
             /\ live' = a.tree
             /\ ema' = IF r.exc = "none" THEN r.val ELSE ema
             /\ pc' = IF r.exc = "none" THEN "ready" ELSE "raised"
             /\ result' = IF r.exc = "none" THEN "ok" ELSE r.exc
             /\ hist' = Append(hist, L)
    /\ prev' = ema
    /\ prevSnap' = Deref(heap, ema.variables)
    /\ last' = "update"
    /\ UNCHANGED <<decay0, P0, step, model_state, dynamic_scale, eval_variables>>

Next == Create \/ Update

Spec == Init /\ [][Next]_vars

-----------------------------------------------------------------------------
(* The training state (tf_linen_train.py) *)

\* optimizer.apply_gradient(grad, learning_rate=lr): a new optimizer whose
\* target has the structure and shapes of the old one and fresh tensors
apply_gradient(h, target, G) == AllocTree(h, G)

\* jax.tree_multimap(functools.partial(jnp.where, is_fin), new, old)
where_is_fin(h, is_fin, new, old) ==
    AllocTree(h, IF is_fin THEN Deref(h, new) ELSE Deref(h, old))

\* the gradient steps an optimizer can take from target
Targets(h, target) ==
    {G \in ParamMaps : Shapes(G) = Shapes(Deref(h, target))}

\* state = create_train_state(config, params, model_state), as
\* train_and_evaluate calls it; half_gpu is: config.half_precision and the
\* platform is 'gpu'
CreateTrainState ==
    /\ pc = "start"
    /\ \E ema_decay \in Decays, params \in ParamMaps, ms \in ModelStates,
          half_gpu \in BOOLEAN :
         LET optimizer == AllocTree(heap, params)
             r == Call_create(optimizer.heap, <<ema_decay, optimizer.tree, ms>>)
         IN  /\ decay0' = ema_decay
             /\ P0' = params
             /\ IF r.exc = "none"
                THEN /\ heap' = r.heap
                     /\ live' = optimizer.tree
                     /\ ema' = r.val
                     /\ model_state' = ms
                     /\ dynamic_scale' = IF half_gpu THEN "DynamicScale" ELSE "None"
                     /\ pc' = "ready"
                     /\ result' = "ok"
                ELSE /\ pc' = "raised"
                     /\ result' = r.exc
                     /\ UNCHANGED <<heap, live, ema, model_state, dynamic_scale>>
    /\ step' = 0
    /\ last' = "create_train_state"
    /\ UNCHANGED <<hist, prev, prevSnap, eval_variables>>

\* TrainState(step=0, optimizer=..., model_state=..., dynamic_scale=...,
\* ema=...) built field by field, the ema field None or the result of
\* EmaState.create(decay, optimizer.target)
NewTrainState ==
    /\ pc = "start"
    /\ \E params \in ParamMaps, ms \in ModelStates,
          ds \in {"None", "DynamicScale"}, with_ema \in BOOLEAN, decay \in Decays :
         LET optimizer == AllocTree(heap, params)
             r == Call_create(optimizer.heap, <<decay, optimizer.tree>>)
         IN  /\ r.exc = "none"
             /\ with_ema \/ decay = Zero
             /\ heap' = r.heap
             /\ live' = optimizer.tree
             /\ ema' = IF with_ema THEN r.val ELSE EmaNone
             /\ decay0' = decay
             /\ P0' = params
             /\ model_state' = ms
             /\ dynamic_scale' = ds
    /\ step' = 0
    /\ pc' = "ready"
    /\ result' = "ok"
    /\ last' = "TrainState"
    /\ UNCHANGED <<hist, prev, prevSnap, eval_variables>>

\* new_state, metrics = train_step(apply_fn, state, batch, lr): G is the
\* target apply_gradient produces, is_fin whether the scaled gradients were
\* finite, ms the new model state
TrainStep ==
    /\ pc = "ready"
    /\ step < MaxSteps
    /\ \E G \in Targets(heap, live), is_fin \in BOOLEAN, ms \in ModelStates :
         LET applied == apply_gradient(heap, live, G)
             new_optimizer ==
                 IF dynamic_scale = "DynamicScale"
                 THEN where_is_fin(applied.heap, is_fin, applied.tree, live)
                 ELSE applied
             new_ema ==
                 IF ~ema.isNone
                 THEN Call_update(new_optimizer.heap, ema, <<new_optimizer.tree, ms>>)
                 ELSE Ok(new_optimizer.heap, EmaNone)
         IN  /\ dynamic_scale = "DynamicScale" \/ is_fin
             /\ IF new_ema.exc = "none"
                THEN /\ heap' = new_ema.heap
                     /\ live' = new_optimizer.tree
                     /\ ema' = new_ema.val
                     /\ model_state' = ms
                     /\ step' = step + 1
                     /\ hist' = IF ema.isNone THEN hist
                                ELSE Append(hist, Deref(new_optimizer.heap, new_optimizer.tree))
                     /\ pc' = "ready"
                     /\ result' = "ok"
                ELSE /\ pc' = "raised"
                     /\ result' = new_ema.exc
                     /\ UNCHANGED <<heap, live, ema, model_state, step, hist>>
    /\ prev' = ema
    /\ prevSnap' = Deref(heap, ema.variables)
    /\ last' = "train_step"
    /\ UNCHANGED <<decay0, P0, dynamic_scale, eval_variables>>

\* the attributes an EmaState has (ema_state.py: decay, variables);
\* reading any other, or any attribute of None, raises AttributeError
EmaStateFields == {"decay", "variables"}

HasAttr(obj, name) == ~obj.isNone /\ name \in EmaStateFields

\* variables = {'params': state.ema.params, **state.ema.model_state}
eval_step_ema(e) ==
    IF ~HasAttr(e, "params") \/ ~HasAttr(e, "model_state")
    THEN [exc |-> "AttributeError", params |-> NoneTree]
    ELSE [exc |-> "none", params |-> e.params]

\* p_eval_step_ema is set only if config.ema_decay != 0.
p_eval_step_ema_set == decay0 # Zero

\* state = sync_batch_stats(state): ms is the averaged model state; with an
\* ema that is not None it reads state.ema.model_state
SyncBatchStats ==
    /\ pc = "ready"
    /\ last \in {"TrainState", "train_step"}
    /\ \E ms \in ModelStates :
         IF ema.isNone
         THEN /\ model_state' = ms
              /\ pc' = "ready"
              /\ result' = "ok"
         ELSE IF HasAttr(ema, "model_state")
         THEN /\ model_state' = ms
              /\ pc' = "ready"
              /\ result' = "ok"
         ELSE /\ pc' = "raised"
              /\ result' = "AttributeError"
              /\ UNCHANGED model_state
    /\ last' = "sync_batch_stats"
    /\ UNCHANGED <<heap, live, ema, decay0, P0, hist, prev, prevSnap, step,
                   dynamic_scale, eval_variables>>

\* metrics = p_eval_step(state, eval_batch): inference with the live
\* parameters, variables = {'params': state.optimizer.target, ...}
EvalStep ==
    /\ pc = "ready"
    /\ last \in {"TrainState", "train_step", "sync_batch_stats"}
    /\ eval_variables' = live
    /\ result' = "ok"
    /\ last' = "eval_step"
    /\ UNCHANGED <<heap, live, ema, pc, decay0, P0, hist, prev, prevSnap, step,
                   model_state, dynamic_scale>>

\* if p_eval_step_ema is not None: metrics = p_eval_step_ema(state, eval_batch)
EvalStepEma ==
    /\ pc = "ready"
    /\ last \in {"TrainState", "train_step", "sync_batch_stats", "eval_step"}
    /\ p_eval_step_ema_set
    /\ LET r == eval_step_ema(ema)
       IN  IF r.exc = "none"
           THEN /\ eval_variables' = r.params
                /\ pc' = "ready"
                /\ result' = "ok"
           ELSE /\ pc' = "raised"
                /\ result' = r.exc
                /\ UNCHANGED eval_variables
    /\ last' = "eval_step_ema"
    /\ UNCHANGED <<heap, live, ema, decay0, P0, hist, prev, prevSnap, step,
                   model_state, dynamic_scale>>

NextTrain ==
    \/ CreateTrainState
    \/ NewTrainState
    \/ TrainStep
    \/ SyncBatchStats
    \/ EvalStep
    \/ EvalStepEma

SpecTrain == Init /\ [][NextTrain]_vars

-----------------------------------------------------------------------------
(* Properties *)

LastLive == hist[Len(hist)]

Shadow == Deref(heap, ema.variables)

Half == <<1, 2>>

NineTenths == <<9, 10>>

\* r = d * s + (1 - d) * p, by cross-multiplication of the fractions
IsBlend(r, d, s, p) ==
    r[1] * d[2] * s[2] * p[2]
        = r[2] * (d[1] * s[1] * p[2] + (d[2] - d[1]) * p[1] * s[2])

\* C1: an update of an enabled state with a live mapping of the shadow's key
\* set succeeds and returns a shadow with exactly those keys whose every
\* element is decay * shadow + (1 - decay) * live.
C1_UpdateBlendsEveryKey ==
    (/\ last = "update"
     /\ prev.decay # Zero
     /\ DOMAIN LastLive = DOMAIN prevSnap
     /\ \A k \in DOMAIN prevSnap : Broadcastable(prevSnap[k], LastLive[k]))
    => /\ result = "ok"
       /\ DOMAIN Shadow = DOMAIN prevSnap
       /\ \A k \in DOMAIN prevSnap :
            /\ Len(Shadow[k]) = BroadcastLen(prevSnap[k], LastLive[k])
            /\ \A i \in 1..Len(Shadow[k]) :
                 IsBlend(Shadow[k][i], prev.decay,
                         At(prevSnap[k], i), At(LastLive[k], i))

\* shadow w = 2, decay 0.9, live w = 12 gives w = 3
C1_Witness ==
    /\ last = "update"
    /\ prev.decay = NineTenths
    /\ prevSnap = [w |-> <<Rat(2)>>]
    /\ LastLive = [w |-> <<Rat(12)>>]
    /\ Shadow = [w |-> <<Rat(3)>>]

\* C2: a state created with decay 0 has decay 0 and no shadow, and keeps both
\* through every update.
C2_DisabledHasNoShadow ==
    (pc # "start" /\ decay0 = Zero)
    => /\ ~ema.isNone
       /\ ema.decay = Zero
       /\ ema.variables.isNone

C2_Witness ==
    /\ decay0 = Zero
    /\ last = "update"
    /\ Len(hist) >= 2
    /\ hist[1] # hist[2]
    /\ ema.variables.isNone

\* C3: create with a decay other than 0 stores that decay and a shadow with
\* the keys of P and, key by key, the values of P.
C3_CreateCopiesValues ==
    (last = "create" /\ decay0 # Zero)
    => /\ ema.decay = decay0
       /\ ~ema.variables.isNone
       /\ DOMAIN Shadow = DOMAIN P0
       /\ \A k \in DOMAIN P0 : Shadow[k] = P0[k]

C3_Witness ==
    /\ last = "create"
    /\ decay0 = NineTenths
    /\ P0 = [b |-> <<Rat(2), Rat(10)>>, w |-> <<Rat(12)>>]
    /\ Shadow = P0

\* C4 as claimed: the shadow create returns shares no tensor with P.
C4_ShadowSharesNoTensor ==
    (last = "create" /\ decay0 # Zero)
    => \A k \in DOMAIN ema.variables.leaves, j \in DOMAIN live.leaves :
          ema.variables.leaves[k] # live.leaves[j]

\* C4 as amended: the shadow create returns has, under every key, the very
\* tensor P has under it, and no step writes into an existing tensor.
C4_ShadowSharesLeaves ==
    [][/\ \A a \in 1..Len(heap) : heap'[a] = heap[a]
       /\ (last' = "create" /\ decay0' # Zero)
          => ema'.variables.leaves = live'.leaves]_vars

C4_Witness ==
    /\ last = "create"
    /\ decay0 # Zero
    /\ DOMAIN live.leaves = {"b", "w"}
    /\ \A k \in DOMAIN live.leaves : ema.variables.leaves[k] = live.leaves[k]

\* C5: an update of an enabled state with a live mapping that lacks a key of
\* the shadow raises the key-mismatch error (ValueError from the tree
\* traversal) and returns no state: the state held is the one before.
C5_MissingKeyRaises ==
    (/\ last = "update"
     /\ prev.decay # Zero
     /\ \E k \in DOMAIN prevSnap : k \notin DOMAIN LastLive)
    => /\ result = "ValueError"
       /\ pc = "raised"
       /\ ema = prev
       /\ Shadow = prevSnap

C5_Witness ==
    /\ last = "update"
    /\ prev.decay # Zero
    /\ DOMAIN prevSnap = {"b", "w"}
    /\ DOMAIN LastLive = {"w"}
    /\ result = "ValueError"

\* C6: while every update so far was given a mapping with the keys and shapes
\* of P, an enabled state's shadow has the keys and shapes of the live
\* mapping.
C6_ShadowHasLiveStructure ==
    (/\ pc = "ready"
     /\ decay0 # Zero
     /\ \A i \in 1..Len(hist) : Shapes(hist[i]) = Shapes(P0))
    => /\ ~ema.variables.isNone
       /\ Shapes(Shadow) = Shapes(Deref(heap, live))

C6_Witness ==
    /\ pc = "ready"
    /\ decay0 # Zero
    /\ Len(hist) = 2
    /\ \A i \in 1..Len(hist) : Shapes(hist[i]) = Shapes(P0)
    /\ Shapes(Shadow) = [b |-> 2, w |-> 1]

\* C7: the state held always has the decay it was created with, an enabled
\* one always a shadow, and an update returns the decay of its input.
C7_ModeNeverChanges ==
    (pc # "start")
    => /\ ema.decay = decay0
       /\ (decay0 # Zero) = ~ema.variables.isNone
       /\ (last = "update" /\ result = "ok") => ema.decay = prev.decay

C7_Witness ==
    /\ decay0 = NineTenths
    /\ ema.decay = NineTenths
    /\ last = "update"
    /\ result = "ok"
    /\ Len(hist) >= 2

\* C8: after an update the state it was called on still has the values it
\* had before the call.
C8_UpdateLeavesInputIntact ==
    (last = "update")
    => Deref(heap, prev.variables) = prevSnap

C8_Witness ==
    /\ last = "update"
    /\ result = "ok"
    /\ prev.decay # Zero
    /\ Shadow # prevSnap
    /\ Deref(heap, prev.variables) = prevSnap

\* C9: training start yields a training state holding the EmaState made by
\* create, every training step succeeds, and the EMA has been updated once
\* per step taken.
C9_EmaAdvancesOncePerStep ==
    /\ result # "TypeError"
    /\ (pc = "ready" /\ ~ema.isNone) => Len(hist) = step

\* C10: from shadow w = 0 with decay 0.5 and the live value w = 10 at every
\* step, the shadow is 5 after one update, 7.5 after two, 8.75 after three.
C10_ThreeStepChain ==
    (/\ pc = "ready"
     /\ decay0 = Half
     /\ P0 = [w |-> <<Rat(0)>>]
     /\ Len(hist) <= 3
     /\ \A i \in 1..Len(hist) : hist[i] = [w |-> <<Rat(10)>>])
    => Shadow = [w |-> << <<Rat(0), Rat(5), <<15, 2>>, <<35, 4>>>>[Len(hist) + 1] >>]

C10_Witness ==
    /\ decay0 = Half
    /\ P0 = [w |-> <<Rat(0)>>]
    /\ hist = <<[w |-> <<Rat(10)>>], [w |-> <<Rat(10)>>], [w |-> <<Rat(10)>>]>>
    /\ prevSnap = [w |-> << <<15, 2>> >>]
    /\ Shadow = [w |-> << <<35, 4>> >>]

\* C11: the EMA evaluation runs only with EMA enabled, and when it has run
\* it has read the shadow, which is present, and inference used the shadow
\* and not the live parameters; no read of a missing field or absent shadow.
C11_EmaEvalReadsShadow ==
    (last = "eval_step_ema")
    => /\ decay0 # Zero
       /\ result = "ok"
       /\ ~ema.variables.isNone
       /\ eval_variables = ema.variables

====
